---- MODULE Spec2Model ----
(***************************************************************************)
(* Booking lifecycle and room search of the tenantflow backend             *)
(* (src/routes/bookings.js, src/routes/admin.js).                          *)
(*                                                                         *)
(* The handlers are stateless; all state lives in the data store.  Every   *)
(* `await supabase...` of a handler is one atomic store call and one       *)
(* action of the model, so that the store calls of concurrently running    *)
(* requests interleave exactly where the handlers can be suspended.        *)
(*                                                                         *)
(*   Spec, SpecSeq  well-formed lifecycle requests, overlapping resp. one  *)
(*                  at a time; every store call answers                    *)
(*   SpecAdmin      adds the owner's update-room-status (admin.js)         *)
(*   SpecAdminRace  the same with overlapping requests                    *)
(*   SpecFail       store calls may return an error                        *)
(*   SpecValid      requests may carry malformed or missing fields         *)
(*   SpecSearch     the room search GET /available-rooms (admin.js), a    *)
(*                  function of the query and of the rows the store       *)
(*                  returns                                               *)
(*                                                                         *)
(* The audit-log write (logActivity) touches none of the modelled tables   *)
(* and is left out.                                                        *)
(***************************************************************************)
EXTENDS Integers, Sequences, FiniteSets, Bags, TLC

\* ------------------------------------------------------------------ bounds
MaxRequests == 3        \* requests received in a run in which requests overlap
MaxRequestsSeq == 5     \* requests received in a run in which they are served one at a time
MaxInFlight == 2        \* requests being served at the same time
MaxRequestsAdmin == 3   \* requests received in a run with room-status requests
MaxRequestsFail == 3    \* requests received in a run with failing store calls
MaxRequestsValid == 3   \* requests received in a run with malformed requests
MaxCandidates == 2      \* rows the store returns to a room search

\* ------------------------------------------------------ static directory
\* Rows of users/owners/tenants/properties and the immutable columns of
\* rooms.  None of the lifecycle handlers writes them.
Procs == 1..MaxInFlight

TenantIds == {"t1", "t2"}
OwnerIds == {"o1", "o2"}
RoomIds == {"r1", "r2"}
PropertyIds == {"p1", "p2"}

\* users with role tenant / owner; "utx" and "uox" have no profile row
TenantUsers == {"ut1", "ut2", "utx"}
OwnerUsers == {"uo1", "uo2", "uox"}
\* users.id of every account
Users == TenantUsers \cup OwnerUsers

\* identifiers a request may carry in roomId ("r0" names no row)
RoomIdInputs == RoomIds \cup {"r0"}

None == "none"       \* null for string-valued data, and a field a request leaves out
NoBooking == 0       \* null for a booking id

\* request fields as they arrive.  uuidRegex.test(String(roomId)): the room
\* identifiers of RoomIdInputs are UUIDs, "not-a-uuid" is not
IsUuid(x) == x \in RoomIdInputs
RawRoomIdInputs == RoomIdInputs \cup {"not-a-uuid", None}

\* !isNaN(new Date(x).getTime())
SomeDate == "2025-01-01"
ParsesAsDate(x) == x = SomeDate
DateInputs == {SomeDate, "not-a-date", None}

\* a bookingId path parameter that is not a UUID; the store refuses to compare
\* it with bookings.id, so the fetch yields an error and no row
MalformedBookingId == -1

\* body('status') values that are not a decision, and the field left out
BadDecisionInputs == {"pending", None}

\* tenants.user_id
TenantUserId(t) == IF t = "t1" THEN "ut1" ELSE "ut2"
\* owners.user_id
OwnerUserId(o) == IF o = "o1" THEN "uo1" ELSE "uo2"
\* properties.owner_id
PropertyOwnerId(pr) == IF pr = "p1" THEN "o1" ELSE "o2"
\* rooms.property_id
RoomPropertyId(r) == IF r = "r1" THEN "p1" ELSE "p2"
\* rooms.room_number
RoomNumber(r) == IF r = "r1" THEN "101" ELSE "102"

room_status == {"available", "occupied", "reserved", "maintenance"}
booking_status == {"pending", "approved", "rejected", "cancelled"}
ActiveStatuses == {"pending", "approved"}

\* ------------------------------------------------------------------- state
VARIABLES
    rooms,          \* rooms table: room id -> [status]
    bookings,       \* bookings table: sequence of rows, the index is the id
    tenants,        \* tenants table: tenant id -> [room_number]
    notifications,  \* notifications table: bag of [user_id, title]
    pc,             \* per request slot: the store call the handler is at
    req,            \* per request slot: the request being served
    loc,            \* per request slot: the handler's local variables
    resp,           \* per request slot: the response sent
    pre,            \* per request slot: the store as it was when the request arrived
    overlapped,     \* request slots whose request ran while another was being served
    received,       \* number of requests received so far
    fault,          \* per request slot: the store calls of the request that returned an error
    search          \* room search: the store's candidate rows, the query and the response

vars == <<rooms, bookings, tenants, notifications, pc, req, loc, resp, pre, overlapped,
          received, fault, search>>
store == <<rooms, bookings, tenants, notifications>>

NoReq == [op |-> None, user |-> None, roomId |-> None, bookingId |-> NoBooking, status |-> None,
          moveInDate |-> None, moveOutDate |-> None]
NoLoc == [tenant_id |-> None, owner_id |-> None, room_id |-> None, property_id |-> None,
          notify_user |-> None, room_number |-> None, status |-> None]
NoResp == [status |-> 0, error |-> ""]
\* no search has been made and no candidate rows are modelled
NoSearch == [candidates |-> <<>>, query |-> <<>>, resp |-> <<>>]
NoPre == [rooms |-> <<>>, bookings |-> <<>>, tenants |-> <<>>, notifications |-> EmptyBag]

Snapshot == [rooms |-> rooms, bookings |-> bookings, tenants |-> tenants,
             notifications |-> notifications]

Init ==
    /\ \E s \in {"available", "maintenance"} :
          rooms = [r \in RoomIds |-> [status |-> IF r = "r1" THEN "available" ELSE s]]
    /\ bookings = <<>>
    /\ tenants = [t \in TenantIds |-> [room_number |-> None]]
    /\ notifications = EmptyBag
    /\ pc = [p \in Procs |-> "idle"]
    /\ req = [p \in Procs |-> NoReq]
    /\ loc = [p \in Procs |-> NoLoc]
    /\ resp = [p \in Procs |-> NoResp]
    /\ pre = [p \in Procs |-> NoPre]
    /\ overlapped = {}
    /\ received = 0
    /\ fault = [p \in Procs |-> {}]
    /\ search = NoSearch

\* ------------------------------------------------------- store primitives
\* supabase `.single()`: the row when the query yields exactly one row,
\* otherwise data is null (and error is set)
Single(S, null) == IF Cardinality(S) = 1 THEN CHOOSE x \in S : TRUE ELSE null

\* from('tenants').eq('user_id', u).single()
TenantOfUser(u) == Single({t \in TenantIds : TenantUserId(t) = u}, None)
\* from('owners').eq('user_id', u).single()
OwnerOfUser(u) == Single({o \in OwnerIds : OwnerUserId(o) = u}, None)

\* from('bookings').eq('tenant_id', t).in('status', ['pending','approved'])
ActiveBookingsOfTenant(bs, t) ==
    {i \in DOMAIN bs : bs[i].tenant_id = t /\ bs[i].status \in ActiveStatuses}
\* from('bookings').eq('room_id', r).in('status', ['pending','approved'])
ActiveBookingsOfRoom(bs, r) ==
    {i \in DOMAIN bs : bs[i].room_id = r /\ bs[i].status \in ActiveStatuses}

\* from('rooms').update({status: s}).eq('id', r): matching no row is not an error
UpdateRoomStatus(r, s) ==
    IF r \in RoomIds THEN [rooms EXCEPT ![r].status = s] ELSE rooms

\* from('bookings').update({status: s}).eq('id', b)
UpdateBookingStatus(b, s) ==
    IF b \in DOMAIN bookings THEN [bookings EXCEPT ![b].status = s] ELSE bookings

\* from('notifications').insert({user_id, title, ...}): notifications.user_id
\* references users(id), so a user_id that names no account is refused by the
\* store (an error the handlers do not look at) and no row is written
InsertNotification(u, title) ==
    IF u \in Users
    THEN notifications (+) SetToBag({[user_id |-> u, title |-> title]})
    ELSE notifications

\* ------------------------------------------------------- request bookkeeping
\* A slot holds a request from its arrival to the delivery of its response.
InFlight == {p \in Procs : pc[p] \notin {"idle", "done"}}

\* ids a request may carry in bookingId: those of the rows and one naming no row
BookingIdInputs == DOMAIN bookings \cup {Len(bookings) + 1}

\* a new request takes the lowest free slot, while fewer than lim requests
\* are being served and fewer than max have been received
CanStart(p, lim, max) ==
    /\ received < max
    /\ \A q \in Procs : pc[q] # "done"
    /\ pc[p] = "idle"
    /\ \A q \in Procs : pc[q] = "idle" => p <= q
    /\ Cardinality(InFlight) < lim

\* arrival of request r in slot p; the handler's first store call yields the
\* locals l and either an early response rs or the next store call label; f
\* holds the name of that store call when it returned an error
ArriveWith(p, r, l, rs, label, f) ==
    /\ req' = [req EXCEPT ![p] = r]
    /\ fault' = [fault EXCEPT ![p] = f]
    /\ UNCHANGED search
    /\ pre' = [pre EXCEPT ![p] = Snapshot]
    /\ overlapped' = IF InFlight # {} THEN overlapped \cup InFlight \cup {p} ELSE overlapped
    /\ received' = received + 1
    /\ resp' = [resp EXCEPT ![p] = rs]
    /\ IF rs # NoResp
       THEN /\ pc' = [pc EXCEPT ![p] = "done"]
            /\ UNCHANGED loc
       ELSE /\ pc' = [pc EXCEPT ![p] = label]
            /\ loc' = [loc EXCEPT ![p] = l]

\* arrival of a request whose first store call answers
Arrive(p, r, l, rs, label) == ArriveWith(p, r, l, rs, label, {})

\* the response has been sent and the slot is free again
Deliver(p) ==
    /\ pc[p] = "done"
    /\ pc' = [pc EXCEPT ![p] = "idle"]
    /\ req' = [req EXCEPT ![p] = NoReq]
    /\ resp' = [resp EXCEPT ![p] = NoResp]
    /\ pre' = [pre EXCEPT ![p] = NoPre]
    /\ overlapped' = overlapped \ {p}
    /\ fault' = [fault EXCEPT ![p] = {}]
    /\ UNCHANGED <<store, loc, received, search>>

\* res.status(code).json(...): the handler returns
Respond(p, code, msg) ==
    /\ resp' = [resp EXCEPT ![p] = [status |-> code, error |-> msg]]
    /\ pc' = [pc EXCEPT ![p] = "done"]
    /\ loc' = [loc EXCEPT ![p] = NoLoc]
    /\ UNCHANGED search

\* the handler goes on to its next store call with locals l
Goto(p, label, l) ==
    /\ pc' = [pc EXCEPT ![p] = label]
    /\ loc' = [loc EXCEPT ![p] = l]
    /\ UNCHANGED <<resp, search>>

\* ------------------------------------------------------- POST /book-room
\* a well-formed book-room request: roomId is a UUID and moveInDate parses
BookRoomReq(u, r) ==
    [NoReq EXCEPT !.op = "book-room", !.user = u, !.roomId = r, !.moveInDate = SomeDate]

\* `if (existingBooking)`: the active-booking query gave a row
HasActiveBooking(bs, t) == Single(ActiveBookingsOfTenant(bs, t), NoBooking) # NoBooking

\* variant of AvailableRoom: the status filter is missing
AvailableRoomAnyStatus(rs, roomId) ==
    Single({r \in RoomIds : r = roomId}, None)

\* from('rooms').eq('id', roomId).eq('status', 'available').single()
AvailableRoom(rs, roomId) ==
    Single({r \in RoomIds : r = roomId /\ rs[r].status = "available"}, None)

\* the row book-room inserts
NewBooking(tenant, roomId, property) ==
    [tenant_id |-> tenant, room_id |-> roomId, property_id |-> property, status |-> "pending"]

\* variant of BookedRoomStatus: the room is marked occupied at once
BookedRoomStatusOccupied == "occupied"

\* the room status book-room writes
BookedRoomStatus == "reserved"

\* arrival and tenant lookup
BookRoom_Tenant(p, u, r, lim, max) ==
    /\ CanStart(p, lim, max)
    /\ LET tenant == TenantOfUser(u) IN
         Arrive(p, BookRoomReq(u, r),
                [NoLoc EXCEPT !.tenant_id = tenant],
                IF tenant = None
                THEN [status |-> 404, error |-> "Tenant profile not found"]
                ELSE NoResp,
                "br_existing")
    /\ UNCHANGED store

\* existing active booking check
BookRoom_Existing(p) ==
    /\ pc[p] = "br_existing"
    /\ IF HasActiveBooking(bookings, loc[p].tenant_id)
         THEN Respond(p, 400, "You already have an active booking")
         ELSE Goto(p, "br_room", loc[p])
    /\ UNCHANGED <<store, req, pre, overlapped, received, fault>>

\* room availability check
BookRoom_Room(p) ==
    /\ pc[p] = "br_room"
    /\ LET room == AvailableRoom(rooms, req[p].roomId) IN
         IF room = None
         THEN Respond(p, 400, "Room not available for booking")
         ELSE Goto(p, "br_insert",
                   [loc[p] EXCEPT !.room_id = room,
                                  !.property_id = RoomPropertyId(room),
                                  !.notify_user = OwnerUserId(PropertyOwnerId(RoomPropertyId(room))),
                                  !.room_number = RoomNumber(room)])
    /\ UNCHANGED <<store, req, pre, overlapped, received, fault>>

\* booking insert
BookRoom_Insert(p) ==
    /\ pc[p] = "br_insert"
    /\ bookings' = Append(bookings, NewBooking(loc[p].tenant_id, req[p].roomId, loc[p].property_id))
    /\ Goto(p, "br_reserve", loc[p])
    /\ UNCHANGED <<rooms, tenants, notifications, req, pre, overlapped, received, fault>>

\* room status update
BookRoom_Reserve(p) ==
    /\ pc[p] = "br_reserve"
    /\ rooms' = UpdateRoomStatus(req[p].roomId, BookedRoomStatus)
    /\ Goto(p, "br_notify", loc[p])
    /\ UNCHANGED <<bookings, tenants, notifications, req, pre, overlapped, received, fault>>

\* owner notification and response
BookRoom_Notify(p) ==
    /\ pc[p] = "br_notify"
    /\ notifications' = InsertNotification(loc[p].notify_user, "New Booking Request")
    /\ Respond(p, 201, "")
    /\ UNCHANGED <<rooms, bookings, tenants, req, pre, overlapped, received, fault>>

\* ------------------------------------------- PUT /booking/:bookingId/status
\* variant of BookingOfOwner: the fetch is not scoped to the caller's properties
BookingOfAnyOwner(bs, b, owner) == Single({i \in DOMAIN bs : i = b}, NoBooking)

\* from('bookings').eq('id', b).eq('properties.owner_id', owner).single()
BookingOfOwner(bs, b, owner) ==
    Single({i \in DOMAIN bs : i = b /\ PropertyOwnerId(bs[i].property_id) = owner}, NoBooking)

\* variant of AlreadyProcessed: only an approved booking counts as processed
AlreadyProcessedOnlyApproved(status) == status = "approved"

\* `if (booking.status !== 'pending')`
AlreadyProcessed(status) == status # "pending"

\* variant of DecidedRoomStatus: the rejected branch also marks the room occupied
DecidedRoomStatusAlwaysOccupied(decision) == "occupied"

\* the room status a decision writes
DecidedRoomStatus(decision) == IF decision = "approved" THEN "occupied" ELSE "available"

\* the notification title of a decision
DecisionTitle(decision) ==
    IF decision = "approved" THEN "Booking Approved" ELSE "Booking Rejected"

\* arrival and owner lookup
Decide_Owner(p, u, b, s, lim, max) ==
    /\ CanStart(p, lim, max)
    /\ LET owner == OwnerOfUser(u) IN
         Arrive(p, [NoReq EXCEPT !.op = "decide", !.user = u, !.bookingId = b, !.status = s],
                [NoLoc EXCEPT !.owner_id = owner],
                IF owner = None
                THEN [status |-> 404, error |-> "Owner profile not found"]
                ELSE NoResp,
                "db_fetch")
    /\ UNCHANGED store

\* booking fetch scoped to the owner, and the pending check
Decide_Fetch(p) ==
    /\ pc[p] = "db_fetch"
    /\ LET booking == BookingOfOwner(bookings, req[p].bookingId, loc[p].owner_id) IN
         IF booking = NoBooking
         THEN Respond(p, 404, "Booking not found or access denied")
         ELSE IF AlreadyProcessed(bookings[booking].status)
         THEN Respond(p, 400, "Booking has already been processed")
         ELSE Goto(p, "db_update",
                   [loc[p] EXCEPT !.status = bookings[booking].status,
                                  !.room_id = bookings[booking].room_id,
                                  !.tenant_id = bookings[booking].tenant_id,
                                  !.notify_user = TenantUserId(bookings[booking].tenant_id),
                                  !.room_number = RoomNumber(bookings[booking].room_id)])
    /\ UNCHANGED <<store, req, pre, overlapped, received, fault>>

\* booking status update
Decide_Update(p) ==
    /\ pc[p] = "db_update"
    /\ bookings' = UpdateBookingStatus(req[p].bookingId, req[p].status)
    /\ Goto(p, IF req[p].status = "approved" THEN "db_occupy" ELSE "db_release", loc[p])
    /\ UNCHANGED <<rooms, tenants, notifications, req, pre, overlapped, received, fault>>

\* approved: room becomes occupied
Decide_Occupy(p) ==
    /\ pc[p] = "db_occupy"
    /\ rooms' = UpdateRoomStatus(loc[p].room_id, DecidedRoomStatus("approved"))
    /\ Goto(p, "db_roomnumber", loc[p])
    /\ UNCHANGED <<bookings, tenants, notifications, req, pre, overlapped, received, fault>>

\* approved: tenant's room number
Decide_RoomNumber(p) ==
    /\ pc[p] = "db_roomnumber"
    /\ tenants' = [tenants EXCEPT ![loc[p].tenant_id].room_number = loc[p].room_number]
    /\ Goto(p, "db_notify", loc[p])
    /\ UNCHANGED <<rooms, bookings, notifications, req, pre, overlapped, received, fault>>

\* rejected: room becomes available again
Decide_Release(p) ==
    /\ pc[p] = "db_release"
    /\ rooms' = UpdateRoomStatus(loc[p].room_id, DecidedRoomStatus("rejected"))
    /\ Goto(p, "db_notify", loc[p])
    /\ UNCHANGED <<bookings, tenants, notifications, req, pre, overlapped, received, fault>>

\* tenant notification and response
Decide_Notify(p) ==
    /\ pc[p] = "db_notify"
    /\ notifications' = InsertNotification(loc[p].notify_user, DecisionTitle(req[p].status))
    /\ Respond(p, 200, "")
    /\ UNCHANGED <<rooms, bookings, tenants, req, pre, overlapped, received, fault>>

\* ------------------------------------------- PUT /booking/:bookingId/cancel
\* variant of BookingOfTenant: the fetch is not scoped to the caller
BookingOfAnyTenant(bs, b, tenant) == Single({i \in DOMAIN bs : i = b}, NoBooking)

\* from('bookings').eq('id', b).eq('tenant_id', tenant).single()
BookingOfTenant(bs, b, tenant) ==
    Single({i \in DOMAIN bs : i = b /\ bs[i].tenant_id = tenant}, NoBooking)

\* `if (booking.status === 'cancelled')`
AlreadyCancelled(status) == status = "cancelled"

\* variant of CancelledRoomStatus: the room stays reserved
CancelledRoomStatusReserved == "reserved"

\* the room status a cancellation writes
CancelledRoomStatus == "available"

\* arrival and tenant lookup
Cancel_Tenant(p, u, b, lim, max) ==
    /\ CanStart(p, lim, max)
    /\ LET tenant == TenantOfUser(u) IN
         Arrive(p, [NoReq EXCEPT !.op = "cancel", !.user = u, !.bookingId = b],
                [NoLoc EXCEPT !.tenant_id = tenant],
                IF tenant = None
                THEN [status |-> 404, error |-> "Tenant profile not found"]
                ELSE NoResp,
                "cb_fetch")
    /\ UNCHANGED store

\* booking fetch scoped to the tenant, and the cancelled check
Cancel_Fetch(p) ==
    /\ pc[p] = "cb_fetch"
    /\ LET booking == BookingOfTenant(bookings, req[p].bookingId, loc[p].tenant_id) IN
         IF booking = NoBooking
         THEN Respond(p, 404, "Booking not found or access denied")
         ELSE IF AlreadyCancelled(bookings[booking].status)
         THEN Respond(p, 400, "Booking is already cancelled")
         ELSE Goto(p, "cb_update",
                   [loc[p] EXCEPT !.status = bookings[booking].status,
                                  !.room_id = bookings[booking].room_id,
                                  !.notify_user = PropertyOwnerId(bookings[booking].property_id),
                                  !.room_number = RoomNumber(bookings[booking].room_id)])
    /\ UNCHANGED <<store, req, pre, overlapped, received, fault>>

\* booking status update
Cancel_Update(p) ==
    /\ pc[p] = "cb_update"
    /\ bookings' = UpdateBookingStatus(req[p].bookingId, "cancelled")
    /\ Goto(p, "cb_release", loc[p])
    /\ UNCHANGED <<rooms, tenants, notifications, req, pre, overlapped, received, fault>>

\* room becomes available again
Cancel_Release(p) ==
    /\ pc[p] = "cb_release"
    /\ rooms' = UpdateRoomStatus(loc[p].room_id, CancelledRoomStatus)
    /\ Goto(p, "cb_notify", loc[p])
    /\ UNCHANGED <<bookings, tenants, notifications, req, pre, overlapped, received, fault>>

\* owner notification and response
Cancel_Notify(p) ==
    /\ pc[p] = "cb_notify"
    /\ notifications' = InsertNotification(loc[p].notify_user, "Booking Cancelled")
    /\ Respond(p, 200, "")
    /\ UNCHANGED <<rooms, bookings, tenants, req, pre, overlapped, received, fault>>

\* --------------------------- PUT /update-room-status/:roomId (admin.js)
\* from('rooms').eq('id', r).eq('properties.owners.user_id', u).single()
RoomOfOwnerUser(r, u) ==
    Single({x \in RoomIds : x = r /\ OwnerUserId(PropertyOwnerId(RoomPropertyId(x))) = u}, None)

\* `if (activeBooking)`: the active-booking query of the room gave a row
HasActiveBookingOnRoom(bs, r) == Single(ActiveBookingsOfRoom(bs, r), NoBooking) # NoBooking

\* arrival and room fetch scoped to the caller's properties
RoomStatus_Fetch(p, u, r, s, lim, max) ==
    /\ CanStart(p, lim, max)
    /\ LET room == RoomOfOwnerUser(r, u) IN
         Arrive(p, [NoReq EXCEPT !.op = "room-status", !.user = u, !.roomId = r, !.status = s],
                [NoLoc EXCEPT !.room_id = room],
                IF room = None
                THEN [status |-> 404, error |-> "Room not found or access denied"]
                ELSE NoResp,
                IF s = "available" THEN "rs_active" ELSE "rs_update")
    /\ UNCHANGED store

\* marking available: the room must have no active booking
RoomStatus_Active(p) ==
    /\ pc[p] = "rs_active"
    /\ IF HasActiveBookingOnRoom(bookings, req[p].roomId)
         THEN Respond(p, 400, "Cannot mark room as available while it has active bookings")
         ELSE Goto(p, "rs_update", loc[p])
    /\ UNCHANGED <<store, req, pre, overlapped, received, fault>>

\* room status update and response
RoomStatus_Update(p) ==
    /\ pc[p] = "rs_update"
    /\ rooms' = UpdateRoomStatus(req[p].roomId, req[p].status)
    /\ Respond(p, 200, "")
    /\ UNCHANGED <<bookings, tenants, notifications, req, pre, overlapped, received, fault>>

\* ------------------------------------------------------- request validation
\* book-room, `errors`: the fields the validation of the body objects to
BookRoomErrors(r, mi, mo) ==
    {f \in {"roomId", "moveInDate", "moveOutDate"} :
        \/ f = "roomId" /\ (r = None \/ ~IsUuid(r))
        \/ f = "moveInDate" /\ (mi = None \/ ~ParsesAsDate(mi))
        \/ f = "moveOutDate" /\ mo # None /\ ~ParsesAsDate(mo)}

\* book-room: `if (errors.length > 0)`, before the first store call
BookRoom_Invalid(p, u, r, mi, mo, lim, max) ==
    /\ CanStart(p, lim, max)
    /\ BookRoomErrors(r, mi, mo) # {}
    /\ Arrive(p, [NoReq EXCEPT !.op = "book-room", !.user = u, !.roomId = r,
                                !.moveInDate = mi, !.moveOutDate = mo],
              NoLoc, [status |-> 400, error |-> "validation errors"], "done")
    /\ UNCHANGED store

\* decide: body('status').isIn(['approved', 'rejected']) objects, before the
\* first store call; bookingId is not validated
Decide_Invalid(p, u, b, s, lim, max) ==
    /\ CanStart(p, lim, max)
    /\ s \notin {"approved", "rejected"}
    /\ Arrive(p, [NoReq EXCEPT !.op = "decide", !.user = u, !.bookingId = b, !.status = s],
              NoLoc, [status |-> 400, error |-> "validation errors"], "done")
    /\ UNCHANGED store

\* ------------------------------------------------------- store failures
\* A store call that fails returns {data: null, error} and writes nothing
\* (supabase-js does not throw).  Each handler step has a failing variant
\* that goes on as the handler does with that result.
Fault(p, call) == fault' = [fault EXCEPT ![p] = @ \cup {call}]

\* variant of NotificationErrorStatus: the error of the insert is surfaced
NotificationErrorSurfaced(success) == 500

\* the status answered after the notification insert returned an error: its
\* result is not looked at, so it is the status of the success response
NotificationErrorStatus(success) == success

\* book-room: `if (tenantError || !tenant)`
BookRoom_TenantFails(p, u, r, lim, max) ==
    /\ CanStart(p, lim, max)
    /\ ArriveWith(p, BookRoomReq(u, r), NoLoc,
                  [status |-> 404, error |-> "Tenant profile not found"], "done", {"lookup"})
    /\ UNCHANGED store

\* book-room: existingBooking is null, the check lets the request through
BookRoom_ExistingFails(p) ==
    /\ pc[p] = "br_existing"
    /\ Fault(p, "existing")
    /\ Goto(p, "br_room", loc[p])
    /\ UNCHANGED <<store, req, pre, overlapped, received>>

\* book-room: `if (roomError || !room)`
BookRoom_RoomFails(p) ==
    /\ pc[p] = "br_room"
    /\ Fault(p, "room")
    /\ Respond(p, 400, "Room not available for booking")
    /\ UNCHANGED <<store, req, pre, overlapped, received>>

\* book-room: `if (bookingError)`
BookRoom_InsertFails(p) ==
    /\ pc[p] = "br_insert"
    /\ Fault(p, "booking-write")
    /\ Respond(p, 500, "Failed to create booking request")
    /\ UNCHANGED <<store, req, pre, overlapped, received>>

\* book-room: the result of the room update is not looked at
BookRoom_ReserveFails(p) ==
    /\ pc[p] = "br_reserve"
    /\ Fault(p, "room-write")
    /\ Goto(p, "br_notify", loc[p])
    /\ UNCHANGED <<store, req, pre, overlapped, received>>

\* book-room: the result of the notification insert is not looked at
BookRoom_NotifyFails(p) ==
    /\ pc[p] = "br_notify"
    /\ Fault(p, "notification")
    /\ Respond(p, NotificationErrorStatus(201), "")
    /\ UNCHANGED <<store, req, pre, overlapped, received>>

\* decide: `if (!owner)`
Decide_OwnerFails(p, u, b, s, lim, max) ==
    /\ CanStart(p, lim, max)
    /\ ArriveWith(p, [NoReq EXCEPT !.op = "decide", !.user = u, !.bookingId = b, !.status = s],
                  NoLoc, [status |-> 404, error |-> "Owner profile not found"], "done",
                  {"lookup"})
    /\ UNCHANGED store

\* decide: `if (fetchError || !booking)`
Decide_FetchFails(p) ==
    /\ pc[p] = "db_fetch"
    /\ Fault(p, "fetch")
    /\ Respond(p, 404, "Booking not found or access denied")
    /\ UNCHANGED <<store, req, pre, overlapped, received>>

\* decide: `if (error)`
Decide_UpdateFails(p) ==
    /\ pc[p] = "db_update"
    /\ Fault(p, "booking-write")
    /\ Respond(p, 500, "Failed to update booking status")
    /\ UNCHANGED <<store, req, pre, overlapped, received>>

\* decide, approved: the result of the room update is not looked at
Decide_OccupyFails(p) ==
    /\ pc[p] = "db_occupy"
    /\ Fault(p, "room-write")
    /\ Goto(p, "db_roomnumber", loc[p])
    /\ UNCHANGED <<store, req, pre, overlapped, received>>

\* decide, approved: the result of the tenant update is not looked at
Decide_RoomNumberFails(p) ==
    /\ pc[p] = "db_roomnumber"
    /\ Fault(p, "room-number-write")
    /\ Goto(p, "db_notify", loc[p])
    /\ UNCHANGED <<store, req, pre, overlapped, received>>

\* decide, rejected: the result of the room update is not looked at
Decide_ReleaseFails(p) ==
    /\ pc[p] = "db_release"
    /\ Fault(p, "room-write")
    /\ Goto(p, "db_notify", loc[p])
    /\ UNCHANGED <<store, req, pre, overlapped, received>>

\* decide: the result of the notification insert is not looked at
Decide_NotifyFails(p) ==
    /\ pc[p] = "db_notify"
    /\ Fault(p, "notification")
    /\ Respond(p, NotificationErrorStatus(200), "")
    /\ UNCHANGED <<store, req, pre, overlapped, received>>

\* cancel: `if (!tenant)`
Cancel_TenantFails(p, u, b, lim, max) ==
    /\ CanStart(p, lim, max)
    /\ ArriveWith(p, [NoReq EXCEPT !.op = "cancel", !.user = u, !.bookingId = b], NoLoc,
                  [status |-> 404, error |-> "Tenant profile not found"], "done", {"lookup"})
    /\ UNCHANGED store

\* cancel: `if (fetchError || !booking)`
Cancel_FetchFails(p) ==
    /\ pc[p] = "cb_fetch"
    /\ Fault(p, "fetch")
    /\ Respond(p, 404, "Booking not found or access denied")
    /\ UNCHANGED <<store, req, pre, overlapped, received>>

\* cancel: `if (error)`
Cancel_UpdateFails(p) ==
    /\ pc[p] = "cb_update"
    /\ Fault(p, "booking-write")
    /\ Respond(p, 500, "Failed to cancel booking")
    /\ UNCHANGED <<store, req, pre, overlapped, received>>

\* cancel: the result of the room update is not looked at
Cancel_ReleaseFails(p) ==
    /\ pc[p] = "cb_release"
    /\ Fault(p, "room-write")
    /\ Goto(p, "cb_notify", loc[p])
    /\ UNCHANGED <<store, req, pre, overlapped, received>>

\* cancel: the result of the notification insert is not looked at
Cancel_NotifyFails(p) ==
    /\ pc[p] = "cb_notify"
    /\ Fault(p, "notification")
    /\ Respond(p, NotificationErrorStatus(200), "")
    /\ UNCHANGED <<store, req, pre, overlapped, received>>

\* ------------------------------------------------------------ specifications
\* a store call of a request being served, or the delivery of its response
Step(p) ==
    \/ Deliver(p)
    \/ BookRoom_Existing(p)
    \/ BookRoom_Room(p)
    \/ BookRoom_Insert(p)
    \/ BookRoom_Reserve(p)
    \/ BookRoom_Notify(p)
    \/ Decide_Fetch(p)
    \/ Decide_Update(p)
    \/ Decide_Occupy(p)
    \/ Decide_RoomNumber(p)
    \/ Decide_Release(p)
    \/ Decide_Notify(p)
    \/ Cancel_Fetch(p)
    \/ Cancel_Update(p)
    \/ Cancel_Release(p)
    \/ Cancel_Notify(p)

\* arrival of a request
Start(p, lim, max) ==
    \/ \E u \in TenantUsers, r \in RoomIdInputs : BookRoom_Tenant(p, u, r, lim, max)
    \/ \E u \in OwnerUsers, b \in BookingIdInputs, s \in {"approved", "rejected"} :
          Decide_Owner(p, u, b, s, lim, max)
    \/ \E u \in TenantUsers, b \in BookingIdInputs : Cancel_Tenant(p, u, b, lim, max)

\* requests overlap: up to MaxInFlight are served at the same time
Next == \E p \in Procs : Start(p, MaxInFlight, MaxRequests) \/ Step(p)

Spec == Init /\ [][Next]_vars

\* requests run one at a time
NextSeq == \E p \in Procs : Start(p, 1, MaxRequestsSeq) \/ Step(p)

SpecSeq == Init /\ [][NextSeq]_vars

\* the lifecycle requests and the owner's room-status requests, one at a time
StartAdmin(p, lim, max) ==
    \E u \in OwnerUsers, r \in RoomIdInputs, s \in room_status :
        RoomStatus_Fetch(p, u, r, s, lim, max)

StepAdmin(p) == RoomStatus_Active(p) \/ RoomStatus_Update(p)

NextAdmin ==
    \E p \in Procs :
        \/ Start(p, 1, MaxRequestsAdmin)
        \/ StartAdmin(p, 1, MaxRequestsAdmin)
        \/ Step(p)
        \/ StepAdmin(p)

SpecAdmin == Init /\ [][NextAdmin]_vars

\* the lifecycle requests and the room-status requests, overlapping
NextAdminRace ==
    \E p \in Procs :
        \/ Start(p, MaxInFlight, MaxRequestsAdmin)
        \/ StartAdmin(p, MaxInFlight, MaxRequestsAdmin)
        \/ Step(p)
        \/ StepAdmin(p)

SpecAdminRace == Init /\ [][NextAdminRace]_vars

\* a store call of a request being served returns an error
StepFails(p) ==
    \/ BookRoom_ExistingFails(p)
    \/ BookRoom_RoomFails(p)
    \/ BookRoom_InsertFails(p)
    \/ BookRoom_ReserveFails(p)
    \/ BookRoom_NotifyFails(p)
    \/ Decide_FetchFails(p)
    \/ Decide_UpdateFails(p)
    \/ Decide_OccupyFails(p)
    \/ Decide_RoomNumberFails(p)
    \/ Decide_ReleaseFails(p)
    \/ Decide_NotifyFails(p)
    \/ Cancel_FetchFails(p)
    \/ Cancel_UpdateFails(p)
    \/ Cancel_ReleaseFails(p)
    \/ Cancel_NotifyFails(p)

\* arrival of a request whose profile lookup returns an error
StartFails(p, lim, max) ==
    \/ \E u \in TenantUsers, r \in RoomIdInputs : BookRoom_TenantFails(p, u, r, lim, max)
    \/ \E u \in OwnerUsers, b \in BookingIdInputs, s \in {"approved", "rejected"} :
          Decide_OwnerFails(p, u, b, s, lim, max)
    \/ \E u \in TenantUsers, b \in BookingIdInputs : Cancel_TenantFails(p, u, b, lim, max)

\* the lifecycle requests one at a time, with a store whose calls may fail
NextFail ==
    \E p \in Procs :
        \/ Start(p, 1, MaxRequestsFail)
        \/ StartFails(p, 1, MaxRequestsFail)
        \/ Step(p)
        \/ StepFails(p)

SpecFail == Init /\ [][NextFail]_vars

\* arrival of a request with a malformed or missing field
StartInvalid(p, lim, max) ==
    \/ \E u \in TenantUsers, r \in RawRoomIdInputs, mi \in DateInputs, mo \in DateInputs :
          BookRoom_Invalid(p, u, r, mi, mo, lim, max)
    \/ \E u \in OwnerUsers, b \in BookingIdInputs \cup {MalformedBookingId},
          s \in BadDecisionInputs :
          Decide_Invalid(p, u, b, s, lim, max)
    \/ \E u \in OwnerUsers, s \in {"approved", "rejected"} :
          Decide_Owner(p, u, MalformedBookingId, s, lim, max)
    \/ \E u \in TenantUsers : Cancel_Tenant(p, u, MalformedBookingId, lim, max)

\* the lifecycle requests one at a time, well-formed or not
NextValid ==
    \E p \in Procs :
        \/ Start(p, 1, MaxRequestsValid)
        \/ StartInvalid(p, 1, MaxRequestsValid)
        \/ Step(p)

SpecValid == Init /\ [][NextValid]_vars

\* ------------------------------------- GET /available-rooms (admin.js)
\* JavaScript values: a kind and, for numbers and strings, a content.  A
\* "numstring" is a query-string value that parseFloat reads as the number
\* v; a "string" is any other non-empty text (for a timestamp, v orders it).
Num(n) == [k |-> "number", v |-> n]
Str(n) == [k |-> "string", v |-> n]
NumStr(n) == [k |-> "numstring", v |-> n]
NaN == [k |-> "NaN", v |-> 0]
Infinity == [k |-> "Infinity", v |-> 0]
NegInfinity == [k |-> "-Infinity", v |-> 0]
Null == [k |-> "null", v |-> 0]
Undefined == [k |-> "undefined", v |-> 0]

\* a query-string field or option that is left out
Absent == "undefined"

\* ToBoolean(x) is false
Falsy(x) == x.k \in {"null", "undefined", "NaN"} \/ (x.k = "number" /\ x.v = 0)
\* a || b
JsOr(a, b) == IF Falsy(a) THEN b ELSE a
\* x == null
LooseNull(x) == x.k \in {"null", "undefined"}
\* a ?? b
Nullish(a, b) == IF LooseNull(a) THEN b ELSE a
\* parseFloat(x) of a query-string value
parseFloat(x) == IF x.k = "numstring" THEN Num(x.v) ELSE NaN
\* ToNumber(x) of an operand of `-` or `<=`
ToNumber(x) ==
    CASE x.k \in {"number", "Infinity", "-Infinity"} -> x
      [] x.k = "numstring" -> Num(x.v)
      [] x.k = "null" -> Num(0)
      [] OTHER -> NaN
\* a - b
Minus(a, b) ==
    LET x == ToNumber(a)
        y == ToNumber(b) IN
    CASE x.k = "NaN" \/ y.k = "NaN" -> NaN
      [] x.k = "number" /\ y.k = "number" -> Num(x.v - y.v)
      [] x.k = y.k -> NaN
      [] x.k = "Infinity" \/ y.k = "-Infinity" -> Infinity
      [] OTHER -> NegInfinity
\* a <= b
LessOrEqual(a, b) ==
    LET x == ToNumber(a)
        y == ToNumber(b) IN
    CASE x.k = "NaN" \/ y.k = "NaN" -> FALSE
      [] x.k = "number" /\ y.k = "number" -> x.v <= y.v
      [] OTHER -> x.k = "-Infinity" \/ y.k = "Infinity"
\* the comparator result v makes sort put b before a: v > 0 (NaN counts as +0)
Positive(v) == v.k = "Infinity" \/ (v.k = "number" /\ v.v > 0)

\* Coordinates are points of a grid; one grid step is GridKm kilometres, and
\* the great-circle distance of two points is taken along the grid.
GridKm == 5
Abs(n) == IF n < 0 THEN -n ELSE n

\* distanceKm(lat1, lon1, lat2, lon2): null without target coordinates
distanceKm(lat1, lon1, lat2, lon2) ==
    IF LooseNull(lat2) \/ LooseNull(lon2) THEN Null
    ELSE IF \E x \in {lat1, lon1, lat2, lon2} : ToNumber(x).k # "number" THEN NaN
    ELSE Num(GridKm * (Abs(lat2.v - lat1.v) + Abs(lon2.v - lon1.v)))

\* rows of rooms joined with their property, as the store holds them
RoomLatitudes == {Null, Num(0), Num(1), Num(2), Num(3)}
PropertyLatitudes == {Null, Num(3)}
RentAmounts == {Num(100), Num(200)}
Timestamps == {Str(1), Str(2)}
RoomRows ==
    { [latitude |-> la, longitude |-> IF la = Null THEN Null ELSE Num(1),
       property |-> [latitude |-> pla, longitude |-> IF pla = Null THEN Null ELSE Num(1)],
       rent_amount |-> rent, deposit_amount |-> Num(0), created_at |-> ts] :
         la \in RoomLatitudes, pla \in PropertyLatitudes, rent \in RentAmounts,
         ts \in Timestamps }

\* select(`*, properties!inner(id, name, address, city, state, pincode,
\* amenities, images, owners!inner(...))`): the embedded property carries the
\* listed columns only, so it has no latitude and no longitude
Selected(row) ==
    [row EXCEPT !.property = [latitude |-> Undefined, longitude |-> Undefined]]

\* query strings
LatitudeInputs == {Undefined, NumStr(1), Str(0)}
LongitudeInputs == {Undefined, NumStr(1)}
RadiusInputs == {Undefined, NumStr(5), Str(0)}
SortByInputs == {Absent, "rent", "distance", "created", "popularity"}
SortOrderInputs == {Absent, "asc", "desc"}

\* the column the sort key names
OrderColumn(sortBy) ==
    IF sortBy = "rent" THEN "rent_amount"
    ELSE IF sortBy = "deposit" THEN "deposit_amount"
    ELSE "created_at"

\* `ascending`: false unless sortOrder is 'asc'
Ascending(sortOrder) == sortOrder # Absent /\ sortOrder = "asc"

\* `radius ? parseFloat(radius) : 10`
DefaultRadius == 10
RadiusKm(radius) == IF Falsy(radius) THEN Num(DefaultRadius) ELSE parseFloat(radius)

\* `r.distance_km === null || r.distance_km <= radKm`
WithinRadius(d, radKm) == d.k = "null" \/ LessOrEqual(d, radKm)

\* the candidate with its distance_km
WithDistance(row, lat, lon) ==
    LET r == Selected(row) IN
    [row |-> row,
     distance_km |-> distanceKm(lat, lon, JsOr(r.latitude, r.property.latitude),
                                JsOr(r.longitude, r.property.longitude))]

\* the comparator of the sort of the geo path
CompareDistance(a, b) ==
    Minus(JsOr(a.distance_km, Infinity), JsOr(b.distance_km, Infinity))

\* variant of CompareColumn: the direction is ignored
CompareColumnAscendingOnly(a, b, col, ascending) ==
    LET av == Nullish(a.row[col], Null)
        bv == Nullish(b.row[col], Null) IN
    IF LooseNull(av) /\ LooseNull(bv) THEN Num(0)
    ELSE IF LooseNull(av) THEN Num(1)
    ELSE IF LooseNull(bv) THEN Num(-1)
    ELSE Minus(av, bv)

CompareColumn(a, b, col, ascending) ==
    LET av == Nullish(a.row[col], Null)
        bv == Nullish(b.row[col], Null) IN
    IF LooseNull(av) /\ LooseNull(bv) THEN Num(0)
    ELSE IF LooseNull(av) THEN Num(1)
    ELSE IF LooseNull(bv) THEN Num(-1)
    ELSE IF ascending THEN Minus(av, bv) ELSE Minus(bv, av)

\* comparefn(a, b) for the sort mode m
Compare(m, a, b) ==
    IF m.sortBy = "distance" THEN CompareDistance(a, b)
    ELSE CompareColumn(a, b, OrderColumn(m.sortBy), Ascending(m.sortOrder))

\* Array.prototype.sort is stable and the comparators above order the
\* elements consistently (NaN counting as +0), so the result is the one of
\* a stable insertion sort
RECURSIVE InsertSorted(_, _, _)
InsertSorted(xs, x, m) ==
    IF xs = <<>> THEN <<x>>
    ELSE IF Positive(Compare(m, xs[Len(xs)], x))
    THEN Append(InsertSorted(SubSeq(xs, 1, Len(xs) - 1), x, m), xs[Len(xs)])
    ELSE Append(xs, x)

RECURSIVE JsSort(_, _)
JsSort(xs, m) ==
    IF xs = <<>> THEN <<>>
    ELSE InsertSorted(JsSort(SubSeq(xs, 1, Len(xs) - 1), m), xs[Len(xs)], m)

\* xs.filter(keep)
RECURSIVE FilterWithin(_, _)
FilterWithin(xs, radKm) ==
    IF xs = <<>> THEN <<>>
    ELSE LET rest == FilterWithin(SubSeq(xs, 2, Len(xs)), radKm) IN
         IF WithinRadius(xs[1].distance_km, radKm) THEN <<xs[1]>> \o rest ELSE rest

\* the rooms of the geo path: map, filter, sort
GeoRooms(cands, q) ==
    LET lat == parseFloat(q.latitude)
        lon == parseFloat(q.longitude)
        annotated == [i \in DOMAIN cands |-> WithDistance(cands[i], lat, lon)]
    IN JsSort(FilterWithin(annotated, RadiusKm(q.radius)), q)

\* the orders in which the store may return the rows for
\* order(col, {ascending}): sorted by the column, rows with equal values in
\* any order
StoreOrdered(cands, col, ascending) ==
    LET n == Len(cands)
        Perms == {f \in [1..n -> 1..n] : \A i, j \in 1..n : f[i] = f[j] => i = j}
        Image(f) == [i \in 1..n |-> cands[f[i]]]
    IN { Image(f) : f \in { g \in Perms :
             \A i \in 1..n : \A j \in 1..n :
                 i < j => IF ascending THEN cands[g[i]][col].v <= cands[g[j]][col].v
                          ELSE cands[g[i]][col].v >= cands[g[j]][col].v } }

\* GET /available-rooms on the geo path: latitude and longitude are given
AvailableRooms_Geo(q) ==
    /\ search.query = <<>>
    /\ ~Falsy(q.latitude) /\ ~Falsy(q.longitude)
    /\ search' = [search EXCEPT
          !.query = q,
          !.resp = [status |-> 200, geo |-> TRUE,
                    rooms |-> GeoRooms(search.candidates, q),
                    search_radius |-> RadiusKm(q.radius)]]
    /\ UNCHANGED <<store, pc, req, loc, resp, pre, overlapped, received, fault>>

\* GET /available-rooms without a search center: the store orders the rows
AvailableRooms_Store(q) ==
    /\ search.query = <<>>
    /\ Falsy(q.latitude) \/ Falsy(q.longitude)
    /\ \E rows \in StoreOrdered(search.candidates, OrderColumn(q.sortBy), Ascending(q.sortOrder)) :
          search' = [search EXCEPT
             !.query = q,
             !.resp = [status |-> 200, geo |-> FALSE,
                       rooms |-> [i \in DOMAIN rows |-> [row |-> rows[i], distance_km |-> Undefined]],
                       search_radius |-> Undefined]]
    /\ UNCHANGED <<store, pc, req, loc, resp, pre, overlapped, received, fault>>

\* the queries a search may carry
Queries ==
    [latitude : LatitudeInputs, longitude : LongitudeInputs, radius : RadiusInputs,
     sortBy : SortByInputs, sortOrder : SortOrderInputs]

\* the store answers the candidate query with up to MaxCandidates rows, in
\* any order (the geo path asks for none)
InitSearch ==
    /\ rooms = [r \in RoomIds |-> [status |-> "available"]]
    /\ bookings = <<>>
    /\ tenants = [t \in TenantIds |-> [room_number |-> None]]
    /\ notifications = EmptyBag
    /\ pc = [p \in Procs |-> "idle"]
    /\ req = [p \in Procs |-> NoReq]
    /\ loc = [p \in Procs |-> NoLoc]
    /\ resp = [p \in Procs |-> NoResp]
    /\ pre = [p \in Procs |-> NoPre]
    /\ overlapped = {}
    /\ received = 0
    /\ fault = [p \in Procs |-> {}]
    /\ \E n \in 0..MaxCandidates : \E cands \in [1..n -> RoomRows] :
          search = [NoSearch EXCEPT !.candidates = cands]

NextSearch == \E q \in Queries : AvailableRooms_Geo(q) \/ AvailableRooms_Store(q)

SpecSearch == InitSearch /\ [][NextSearch]_vars

\* ----------------------------------------------------------------- claims
Done(p) == pc[p] = "done"

\* slot p holds an answered request that no other request overlapped
Alone(p) == Done(p) /\ p \notin overlapped

\* no request is mid-flight
Quiescent == InFlight = {}

\* the four tables are as they were when the request of slot p arrived
StoreUnchanged(p) == Snapshot = pre[p]

\* the tenant profile of the caller of slot p
Caller(p) == TenantOfUser(req[p].user)

BookRoomDone(p) == Done(p) /\ req[p].op = "book-room"
DecideDone(p) == Done(p) /\ req[p].op = "decide"

Refused(p, code, msg) == resp[p] = [status |-> code, error |-> msg]

\* when the request of slot p arrived, its room was available and its tenant
\* had no active booking
BookableOnArrival(p) ==
    /\ Caller(p) # None
    /\ req[p].roomId \in RoomIds
    /\ pre[p].rooms[req[p].roomId].status = "available"
    /\ ActiveBookingsOfTenant(pre[p].bookings, Caller(p)) = {}

\* the rows the request of slot p has inserted into bookings
InsertedBy(p) ==
    {i \in DOMAIN bookings : /\ i > Len(pre[p].bookings)
                             /\ bookings[i].tenant_id = Caller(p)
                             /\ bookings[i].room_id = req[p].roomId}

\* C1: two overlapping book-room requests of different tenants without an
\* active booking for the same available room: exactly one is answered 201
\* with its booking inserted, the other is refused with 'Room not available
\* for booking' and inserts no booking.
C1_ExactlyOneBookingWins ==
    \A p, q \in Procs :
        ( /\ p # q
          /\ BookRoomDone(p) /\ BookRoomDone(q)
          /\ {p, q} \subseteq overlapped
          /\ req[p].roomId = req[q].roomId
          /\ req[p].user # req[q].user
          /\ BookableOnArrival(p) /\ BookableOnArrival(q) )
        => \E w \in {p, q} : \E l \in {p, q} \ {w} :
              /\ resp[w].status = 201
              /\ Cardinality(InsertedBy(w)) = 1
              /\ Refused(l, 400, "Room not available for booking")
              /\ InsertedBy(l) = {}

\* C2: in every reachable state each tenant has at most one booking whose
\* status is pending or approved.
C2_OneActiveBookingPerTenant ==
    \A t \in TenantIds : Cardinality(ActiveBookingsOfTenant(bookings, t)) <= 1

\* C3: a book-room request that ran alone while its tenant had one or more
\* active bookings is refused with 'You already have an active booking' and
\* changes no table.
C3_ActiveTenantRefused ==
    \A p \in Procs :
        ( /\ BookRoomDone(p) /\ Alone(p)
          /\ Caller(p) # None
          /\ ActiveBookingsOfTenant(pre[p].bookings, Caller(p)) # {} )
        => /\ Refused(p, 400, "You already have an active booking")
           /\ StoreUnchanged(p)

\* C4: after any sequence of completed operations run one at a time, no room
\* has more than one booking in status pending or approved.
C4_NoDoubleBooking ==
    Quiescent => \A r \in RoomIds : Cardinality(ActiveBookingsOfRoom(bookings, r)) <= 1

\* the status changes the lifecycle allows
AllowedTransitions ==
    { <<"pending", "approved">>, <<"pending", "rejected">>,
      <<"pending", "cancelled">>, <<"approved", "cancelled">> }

\* C5: every change of a booking's status is pending->approved,
\* pending->rejected, pending->cancelled or approved->cancelled; a rejected
\* or cancelled booking never changes again.
C5_OnlyAllowedTransitions ==
    [][\A b \in DOMAIN bookings :
          bookings'[b].status # bookings[b].status
             => <<bookings[b].status, bookings'[b].status>> \in AllowedTransitions]_vars

\* the booking a decide request names was no longer pending when it arrived
ProcessedOnArrival(p) ==
    /\ req[p].bookingId \in DOMAIN pre[p].bookings
    /\ pre[p].bookings[req[p].bookingId].status \in {"approved", "rejected", "cancelled"}

\* the caller of a decide request is the owner of the booking's property
OwnsBooking(p) ==
    /\ req[p].bookingId \in DOMAIN pre[p].bookings
    /\ OwnerOfUser(req[p].user) # None
    /\ PropertyOwnerId(pre[p].bookings[req[p].bookingId].property_id) = OwnerOfUser(req[p].user)

\* C6 as stated: a decide request (of a user with an owner profile) on a
\* booking that is approved, rejected or cancelled fails with 'Booking has
\* already been processed' and changes no table (booking status, room status,
\* room_number, notifications).
C6_ProcessedRefused ==
    \A p \in Procs :
        (DecideDone(p) /\ Alone(p) /\ ProcessedOnArrival(p) /\ OwnerOfUser(req[p].user) # None)
        => /\ Refused(p, 400, "Booking has already been processed")
           /\ StoreUnchanged(p)

\* C6 amended: such a request changes no table; it fails with 'Booking has
\* already been processed' when the caller owns the booking's property and
\* with a 404 otherwise.
C6_ProcessedRefusedForOwner ==
    \A p \in Procs :
        (DecideDone(p) /\ Alone(p) /\ ProcessedOnArrival(p))
        => /\ StoreUnchanged(p)
           /\ IF OwnsBooking(p)
              THEN Refused(p, 400, "Booking has already been processed")
              ELSE resp[p].status = 404

C6_Witness ==
    \E p \in Procs :
        /\ DecideDone(p) /\ Alone(p) /\ ProcessedOnArrival(p) /\ OwnsBooking(p)
        /\ Refused(p, 400, "Booking has already been processed")

\* C7: with no request mid-flight, after operations run one at a time, every
\* approved booking has its room occupied and every pending booking has its
\* room reserved.
C7_RoomMatchesBooking ==
    Quiescent =>
        \A i \in DOMAIN bookings :
            /\ bookings[i].status = "approved" => rooms[bookings[i].room_id].status = "occupied"
            /\ bookings[i].status = "pending" => rooms[bookings[i].room_id].status = "reserved"

\* the room a book-room request names was missing or not available on arrival
RoomUnavailableOnArrival(p) ==
    \/ req[p].roomId \notin RoomIds
    \/ pre[p].rooms[req[p].roomId].status \in {"reserved", "occupied", "maintenance"}

C9_BookRoomEffect ==
    \A p \in Procs :
        (BookRoomDone(p) /\ Alone(p) /\ resp[p].status = 201 /\ BookableOnArrival(p))
        => LET r == req[p].roomId IN
           /\ bookings = Append(pre[p].bookings,
                                [tenant_id |-> Caller(p), room_id |-> r,
                                 property_id |-> RoomPropertyId(r), status |-> "pending"])
           /\ rooms = [pre[p].rooms EXCEPT ![r].status = "reserved"]
           /\ notifications = pre[p].notifications (+)
                  SetToBag({[user_id |-> OwnerUserId(PropertyOwnerId(RoomPropertyId(r))),
                             title |-> "New Booking Request"]})

C9_Witness ==
    \E p \in Procs :
        /\ BookRoomDone(p) /\ Alone(p) /\ resp[p].status = 201 /\ BookableOnArrival(p)
        /\ rooms[req[p].roomId].status = "reserved"
        /\ Len(bookings) = Len(pre[p].bookings) + 1

\* C10: a successful decide of the owning owner on a pending booking sets the
\* booking's status to the decision; approved: the room becomes occupied and
\* the tenant's room_number the room's number; rejected: the room becomes
\* available and room_number stays; either way a notification for the user
\* account of the booking's tenant is inserted.
C10_DecideEffect ==
    \A p \in Procs :
        ( /\ DecideDone(p) /\ Alone(p) /\ resp[p].status = 200
          /\ OwnsBooking(p)
          /\ pre[p].bookings[req[p].bookingId].status = "pending" )
        => LET b == req[p].bookingId
               bk == pre[p].bookings[b]
               d == req[p].status IN
           /\ bookings = [pre[p].bookings EXCEPT ![b].status = d]
           /\ d = "approved" =>
                 /\ rooms = [pre[p].rooms EXCEPT ![bk.room_id].status = "occupied"]
                 /\ tenants = [pre[p].tenants EXCEPT
                                  ![bk.tenant_id].room_number = RoomNumber(bk.room_id)]
           /\ d = "rejected" =>
                 /\ rooms = [pre[p].rooms EXCEPT ![bk.room_id].status = "available"]
                 /\ tenants = pre[p].tenants
           /\ \E title \in {"Booking Approved", "Booking Rejected"} :
                 notifications = pre[p].notifications (+)
                     SetToBag({[user_id |-> TenantUserId(bk.tenant_id), title |-> title]})

C10_Witness ==
    \E p \in Procs :
        /\ DecideDone(p) /\ Alone(p) /\ resp[p].status = 200 /\ OwnsBooking(p)
        /\ pre[p].bookings[req[p].bookingId].status = "pending"
        /\ req[p].status = "approved"
        /\ bookings[req[p].bookingId].status = "approved"
        /\ tenants[bookings[req[p].bookingId].tenant_id].room_number
              = RoomNumber(bookings[req[p].bookingId].room_id)

CancelDone(p) == Done(p) /\ req[p].op = "cancel"

\* the booking a request names existed when the request arrived
NamesBooking(p) == req[p].bookingId \in DOMAIN pre[p].bookings

\* C11: a decide request that ran alone and whose caller does not own the
\* booking's property (another owner, or a user without owner profile) is
\* answered 404 and leaves bookings, rooms and tenants as they were; and every
\* step that turns a booking's status into approved or rejected is the status
\* update of a decide request of the owner of the booking's property.
C11_OnlyOwnerDecides ==
    /\ [](\A p \in Procs :
            (DecideDone(p) /\ Alone(p) /\ NamesBooking(p) /\ ~OwnsBooking(p))
            => /\ resp[p].status = 404
               /\ bookings = pre[p].bookings
               /\ rooms = pre[p].rooms
               /\ tenants = pre[p].tenants)
    /\ [][\A b \in DOMAIN bookings :
            ( /\ bookings'[b].status # bookings[b].status
              /\ bookings'[b].status \in {"approved", "rejected"} )
            => \E p \in Procs :
                  /\ req[p].op = "decide"
                  /\ req[p].bookingId = b
                  /\ OwnerOfUser(req[p].user) = PropertyOwnerId(bookings[b].property_id)]_vars

C11_Witness ==
    \E p \in Procs :
        /\ DecideDone(p) /\ Alone(p) /\ NamesBooking(p)
        /\ OwnerOfUser(req[p].user) # None
        /\ ~OwnsBooking(p)
        /\ pre[p].bookings[req[p].bookingId].status = "pending"
        /\ Refused(p, 404, "Booking not found or access denied")

\* the caller of a cancel request is the tenant of the booking it names
OwnBooking(p) ==
    /\ NamesBooking(p)
    /\ Caller(p) # None
    /\ pre[p].bookings[req[p].bookingId].tenant_id = Caller(p)

\* C12: a successful cancel by the booking's tenant of a pending or approved
\* booking sets the booking's status to cancelled and the status of its room
\* to available, whatever the room's status was.
C12_CancelEffect ==
    \A p \in Procs :
        ( /\ CancelDone(p) /\ Alone(p) /\ resp[p].status = 200
          /\ OwnBooking(p)
          /\ pre[p].bookings[req[p].bookingId].status \in ActiveStatuses )
        => LET b == req[p].bookingId IN
           /\ bookings = [pre[p].bookings EXCEPT ![b].status = "cancelled"]
           /\ rooms = [pre[p].rooms EXCEPT ![pre[p].bookings[b].room_id].status = "available"]

C12_Witness ==
    \E p \in Procs :
        /\ CancelDone(p) /\ Alone(p) /\ resp[p].status = 200 /\ OwnBooking(p)
        /\ pre[p].bookings[req[p].bookingId].status = "approved"
        /\ pre[p].rooms[pre[p].bookings[req[p].bookingId].room_id].status = "occupied"
        /\ bookings[req[p].bookingId].status = "cancelled"
        /\ rooms[bookings[req[p].bookingId].room_id].status = "available"

\* C13: a cancel request that ran alone and names a booking that is already
\* cancelled or is not the caller's changes no table (booking status, room
\* status, notifications); it is answered 404 when the booking is not the
\* caller's and 400 'Booking is already cancelled' when it is.
C13_CancelRefused ==
    \A p \in Procs :
        ( /\ CancelDone(p) /\ Alone(p) /\ NamesBooking(p)
          /\ \/ ~OwnBooking(p)
             \/ pre[p].bookings[req[p].bookingId].status = "cancelled" )
        => /\ StoreUnchanged(p)
           /\ IF OwnBooking(p)
              THEN Refused(p, 400, "Booking is already cancelled")
              ELSE resp[p].status = 404

C13_Witness ==
    \E p \in Procs :
        /\ CancelDone(p) /\ Alone(p) /\ OwnBooking(p)
        /\ pre[p].bookings[req[p].bookingId].status = "cancelled"
        /\ Refused(p, 400, "Booking is already cancelled")

\* C14: a successful cancel adds one 'Booking Cancelled' notification whose
\* user_id is the user account of the owner of the booking's property (the
\* recipient book-room used for that room), and a successful decide adds one
\* whose user_id is the user account of the booking's tenant.
C14_NotificationRecipients ==
    \A p \in Procs :
        (Done(p) /\ Alone(p) /\ resp[p].status = 200 /\ NamesBooking(p))
        => LET bk == pre[p].bookings[req[p].bookingId] IN
           /\ req[p].op = "cancel" =>
                 notifications = pre[p].notifications (+)
                     SetToBag({[user_id |-> OwnerUserId(PropertyOwnerId(bk.property_id)),
                                title |-> "Booking Cancelled"]})
           /\ req[p].op = "decide" =>
                 notifications = pre[p].notifications (+)
                     SetToBag({[user_id |-> TenantUserId(bk.tenant_id),
                                title |-> DecisionTitle(req[p].status)]})

\* C15: with no request mid-flight, after operations run one at a time, a
\* tenant whose room_number is set has an approved booking, and room_number is
\* the number of that booking's room.
C15_RoomNumberMirrorsApproved ==
    Quiescent =>
        \A t \in TenantIds :
            tenants[t].room_number # None
            => \E i \in DOMAIN bookings :
                  /\ bookings[i].tenant_id = t
                  /\ bookings[i].status = "approved"
                  /\ RoomNumber(bookings[i].room_id) = tenants[t].room_number

RoomStatusDone(p) == Done(p) /\ req[p].op = "room-status"

\* a booking (of any status) names the room of the request of slot p
BookingExistsOnArrival(p) ==
    \E i \in DOMAIN pre[p].bookings : pre[p].bookings[i].room_id = req[p].roomId

\* C16: a room-status request of the owner for a room that some booking
\* names leaves the status of every room as it was.
C16_BookedRoomStatusFrozen ==
    \A p \in Procs :
        (RoomStatusDone(p) /\ Alone(p) /\ BookingExistsOnArrival(p))
        => rooms = pre[p].rooms

\* C17: a request that ran alone and whose only failing store call was the
\* notification insert is answered with success (201 for book-room, 200 for
\* decide and cancel), and the booking and room changes of the operation are
\* in the store: nothing is rolled back, and no notification is written.
C17_NotificationFailureKept ==
    \A p \in Procs :
        (Done(p) /\ Alone(p) /\ fault[p] = {"notification"})
        => LET b == req[p].bookingId
               r == req[p].roomId IN
           /\ notifications = pre[p].notifications
           /\ req[p].op \in {"book-room", "decide", "cancel"}
           /\ req[p].op = "book-room" =>
                 /\ resp[p].status = 201
                 /\ bookings = Append(pre[p].bookings,
                                      [tenant_id |-> Caller(p), room_id |-> r,
                                       property_id |-> RoomPropertyId(r), status |-> "pending"])
                 /\ rooms = [pre[p].rooms EXCEPT ![r].status = "reserved"]
           /\ req[p].op = "decide" =>
                 /\ resp[p].status = 200
                 /\ bookings = [pre[p].bookings EXCEPT ![b].status = req[p].status]
                 /\ rooms = [pre[p].rooms EXCEPT ![pre[p].bookings[b].room_id].status =
                               IF req[p].status = "approved" THEN "occupied" ELSE "available"]
           /\ req[p].op = "cancel" =>
                 /\ resp[p].status = 200
                 /\ bookings = [pre[p].bookings EXCEPT ![b].status = "cancelled"]
                 /\ rooms = [pre[p].rooms EXCEPT ![pre[p].bookings[b].room_id].status = "available"]

C17_Witness ==
    \E p \in Procs :
        /\ DecideDone(p) /\ Alone(p) /\ fault[p] = {"notification"}
        /\ req[p].status = "approved"
        /\ resp[p].status = 200
        /\ bookings[req[p].bookingId].status = "approved"
        /\ rooms[bookings[req[p].bookingId].room_id].status = "occupied"
        /\ notifications = pre[p].notifications

\* the store calls of the primary transition
PrimaryCalls == {"lookup", "booking-write", "room-write", "room-number-write"}

\* C18: a request one of whose primary store calls (profile lookup, booking
\* insert or update, room-status update, room_number update) returned an
\* error is answered with an error status, never with 200 or 201.
C18_PrimaryFailureSurfaces ==
    \A p \in Procs :
        (Done(p) /\ fault[p] \cap PrimaryCalls # {}) => resp[p].status >= 400

\* C19: after a book-room request that ran alone has finished, no pending
\* booking inserted by it names a room that is still available; when its
\* booking insert failed the room statuses are as before, and when its room
\* update failed no booking inserted by it is in the store.
C19_BookRoomAllOrNothing ==
    \A p \in Procs :
        (BookRoomDone(p) /\ Alone(p))
        => /\ \A i \in InsertedBy(p) :
                 ~(bookings[i].status = "pending" /\ rooms[req[p].roomId].status = "available")
           /\ "booking-write" \in fault[p] => rooms = pre[p].rooms
           /\ "room-write" \in fault[p] => InsertedBy(p) = {}

\* the request of slot p carries a malformed identifier, lacks a required
\* field, names no decision or carries a date that does not parse
Malformed(p) ==
    \/ /\ req[p].op = "book-room"
       /\ \/ ~IsUuid(req[p].roomId)
          \/ ~ParsesAsDate(req[p].moveInDate)
          \/ req[p].moveOutDate # None /\ ~ParsesAsDate(req[p].moveOutDate)
    \/ /\ req[p].op = "decide"
       /\ \/ req[p].bookingId = MalformedBookingId
          \/ req[p].status \notin {"approved", "rejected"}
    \/ /\ req[p].op = "cancel"
       /\ req[p].bookingId = MalformedBookingId

\* C20: a malformed lifecycle request is answered 400 with the validation
\* errors and changes no table.
C20_MalformedRejected ==
    \A p \in Procs :
        (Done(p) /\ Alone(p) /\ Malformed(p))
        => /\ Refused(p, 400, "validation errors")
           /\ StoreUnchanged(p)

\* slots p and q hold two answered requests that overlapped, both naming
\* the same booking, which was pending when each of them arrived
RacedOnPending(p, q) ==
    /\ p # q
    /\ Done(p) /\ Done(q)
    /\ {p, q} \subseteq overlapped
    /\ req[p].bookingId = req[q].bookingId
    /\ NamesBooking(p) /\ NamesBooking(q)
    /\ pre[p].bookings[req[p].bookingId].status = "pending"
    /\ pre[q].bookings[req[q].bookingId].status = "pending"

\* C27: an approving decide of the owner and a cancel of the tenant that
\* overlapped on the same pending booking: at most one is answered 200, and
\* the booking ends approved with its room occupied or cancelled with its
\* room available.
C27_DecideCancelRace ==
    \A p, q \in Procs :
        ( /\ RacedOnPending(p, q)
          /\ req[p].op = "decide" /\ req[p].status = "approved" /\ OwnsBooking(p)
          /\ req[q].op = "cancel" /\ OwnBooking(q) )
        => LET bk == bookings[req[p].bookingId] IN
           /\ ~(resp[p].status = 200 /\ resp[q].status = 200)
           /\ \/ bk.status = "approved" /\ rooms[bk.room_id].status = "occupied"
              \/ bk.status = "cancelled" /\ rooms[bk.room_id].status = "available"

\* C28: two decides of the owner with opposite decisions that overlapped on
\* the same pending booking: exactly one is answered 200, the other is
\* refused with 'Booking has already been processed', and the booking's
\* status and its room's status are those of the successful decision.
C28_OppositeDecisionsRace ==
    \A p, q \in Procs :
        ( /\ RacedOnPending(p, q)
          /\ req[p].op = "decide" /\ req[p].status = "approved" /\ OwnsBooking(p)
          /\ req[q].op = "decide" /\ req[q].status = "rejected" /\ OwnsBooking(q) )
        => LET bk == bookings[req[p].bookingId] IN
           \/ /\ resp[p].status = 200
              /\ Refused(q, 400, "Booking has already been processed")
              /\ bk.status = "approved" /\ rooms[bk.room_id].status = "occupied"
           \/ /\ resp[q].status = 200
              /\ Refused(p, 400, "Booking has already been processed")
              /\ bk.status = "rejected" /\ rooms[bk.room_id].status = "available"

\* when the cancel request of slot p arrived, another booking of the same
\* room was pending or approved
OtherActiveBookingOnRoom(p) ==
    /\ NamesBooking(p)
    /\ \E i \in ActiveBookingsOfRoom(pre[p].bookings, pre[p].bookings[req[p].bookingId].room_id) :
          i # req[p].bookingId

\* C29: a cancel request that ran alone leaves the status of the booking's
\* room as it was when another booking of that room is pending or approved.
C29_CancelKeepsRebookedRoom ==
    \A p \in Procs :
        (CancelDone(p) /\ Alone(p) /\ OtherActiveBookingOnRoom(p))
        => LET r == pre[p].bookings[req[p].bookingId].room_id IN
           rooms[r].status = pre[p].rooms[r].status

\* C30: a room-status request of the room's owner with status 'available'
\* that ran alone while the room had one or more pending or approved bookings
\* is refused with 'Cannot mark room as available while it has active
\* bookings' and leaves the room statuses as they were.
C30_AvailableRefusedWhileBooked ==
    \A p \in Procs :
        ( /\ RoomStatusDone(p) /\ Alone(p)
          /\ req[p].status = "available"
          /\ RoomOfOwnerUser(req[p].roomId, req[p].user) # None
          /\ ActiveBookingsOfRoom(pre[p].bookings, req[p].roomId) # {} )
        => /\ Refused(p, 400, "Cannot mark room as available while it has active bookings")
           /\ rooms = pre[p].rooms

\* a search has been answered
Searched == search.query # <<>>

\* a search on the geo path whose center and radius are numbers
GeoSearched ==
    /\ Searched
    /\ search.resp.geo
    /\ search.query.latitude.k = "numstring"
    /\ search.query.longitude.k = "numstring"
    /\ search.query.radius.k \in {"undefined", "numstring"}

\* the radius of the search: the one given, 10 without one
EffectiveRadius == IF search.query.radius.k = "numstring" THEN search.query.radius.v ELSE 10

\* the coordinates that locate a row: its own, else those of its property
HasCoordinates(x) == x.latitude.k = "number" /\ x.longitude.k = "number"
Resolvable(row) == HasCoordinates(row) \/ HasCoordinates(row.property)
Located(row) == IF HasCoordinates(row) THEN row ELSE row.property

\* the distance of a resolvable row from the search center, in kilometres
CenterDistance(row) ==
    GridKm * ( Abs(Located(row).latitude.v - search.query.latitude.v)
             + Abs(Located(row).longitude.v - search.query.longitude.v) )

\* how often the row x occurs in the sequence xs
Occurrences(xs, x) == Cardinality({i \in DOMAIN xs : xs[i] = x})

\* the rows of the response
ReturnedRows == [i \in DOMAIN search.resp.rooms |-> search.resp.rooms[i].row]

\* C21: in a geo search every candidate row whose distance is resolvable is
\* returned exactly when that distance is at most the radius, and every row
\* without resolvable coordinates is returned.
C21_RadiusFilter ==
    GeoSearched =>
        \A i \in DOMAIN search.candidates :
            LET row == search.candidates[i] IN
            Occurrences(ReturnedRows, row) =
                IF Resolvable(row) /\ CenterDistance(row) > EffectiveRadius
                THEN 0
                ELSE Occurrences(search.candidates, row)

\* C22: in a geo search a row without own coordinates whose property has
\* coordinates carries the distance from the property's coordinates and is
\* left out when that distance exceeds the radius; a returned row has a null
\* distance only when neither it nor its property has coordinates.
C22_PropertyFallback ==
    GeoSearched =>
        /\ \A i \in DOMAIN search.resp.rooms :
              LET e == search.resp.rooms[i] IN
              /\ e.distance_km.k = "null" => ~Resolvable(e.row)
              /\ (~HasCoordinates(e.row) /\ HasCoordinates(e.row.property))
                 => e.distance_km = Num(CenterDistance(e.row))
        /\ \A i \in DOMAIN search.candidates :
              LET row == search.candidates[i] IN
              ( /\ ~HasCoordinates(row) /\ HasCoordinates(row.property)
                /\ CenterDistance(row) > EffectiveRadius )
              => Occurrences(ReturnedRows, row) = 0

\* C23: in a geo search sorted by distance, the returned rows with a
\* distance are in non-decreasing order of it, and every row with a null
\* distance comes after every row with a distance.
C23_DistanceOrder ==
    (GeoSearched /\ search.query.sortBy = "distance") =>
        \A i, j \in DOMAIN search.resp.rooms :
            i < j =>
               LET di == search.resp.rooms[i].distance_km
                   dj == search.resp.rooms[j].distance_km IN
               /\ (di.k = "number" /\ dj.k = "number") => di.v <= dj.v
               /\ di.k = "null" => dj.k = "null"

\* C24: a search sorted by rent, on either path, returns the rows in
\* non-decreasing order of rent_amount when sortOrder is 'asc' and in
\* non-increasing order otherwise.
C24_RentOrder ==
    (Searched /\ search.query.sortBy = "rent") =>
        \A i, j \in DOMAIN search.resp.rooms :
            i < j =>
               LET ri == search.resp.rooms[i].row.rent_amount.v
                   rj == search.resp.rooms[j].row.rent_amount.v IN
               IF search.query.sortOrder = "asc" THEN ri <= rj ELSE ri >= rj

\* a geo search sorted by rent whose sort had to exchange two rows
C24_Witness ==
    /\ Searched /\ search.resp.geo
    /\ search.query.sortBy = "rent" /\ search.query.sortOrder = "asc"
    /\ Len(search.candidates) = 2 /\ Len(search.resp.rooms) = 2
    /\ search.candidates[1].rent_amount.v > search.candidates[2].rent_amount.v
    /\ search.resp.rooms[1].row.rent_amount.v < search.resp.rooms[2].row.rent_amount.v

\* C25: a search whose latitude, longitude or radius is given but is not a
\* number is answered 400.
C25_MalformedNumberRefused ==
    ( /\ Searched
      /\ \E f \in {"latitude", "longitude", "radius"} : search.query[f].k = "string" )
    => search.resp.status = 400

\* C26: a geo search whose sort key is absent, 'created' or unknown returns
\* the rows in order of created_at: descending, ascending when sortOrder is
\* 'asc'.
C26_CreatedOrderGeo ==
    (GeoSearched /\ search.query.sortBy \notin {"rent", "deposit", "distance"}) =>
        \A i, j \in DOMAIN search.resp.rooms :
            i < j =>
               LET ci == search.resp.rooms[i].row.created_at.v
                   cj == search.resp.rooms[j].row.created_at.v IN
               IF search.query.sortOrder = "asc" THEN ci <= cj ELSE ci >= cj

====
